---- MODULE Spec2Model ----
(***************************************************************************)
(* A model of devbox's lock store (internal/lock/lockfile.go): the         *)
(* in-memory lock.File, the devbox.lock file on disk, and the operations   *)
(* Add, Remove, Resolve, Save, UpdateStdenv, Stdenv, Get, Tidy,            *)
(* IsUpToDateAndInstalled and SetOutputsForPackage; and of the GitHub      *)
(* plugin's FileContent and getRedactedAuthHeader                          *)
(* (internal/plugin/github.go).                                            *)
(*                                                                         *)
(* Strings are sequences of tokens: "hello@1" is <<"hello", "@", "1">>,    *)
(* so that prefix tests, concatenation and parsing are computed.  Go's nil *)
(* and empty slice (and nil and empty map) are one value here: the code    *)
(* under study only tests len(), and encoding/json's omitempty drops both. *)
(***************************************************************************)
EXTENDS Integers, Sequences, FiniteSets, TLC

VARIABLES Packages,    \* File.Packages, the in-memory map
          disk,        \* the file <project-dir>/devbox.lock
          stdenv,      \* devboxProject.Stdenv().String(), the base reference
          last,        \* what the latest call did (history)
          prev,        \* summary of the call before it (history)
          calls,       \* number of calls made so far
          plugin,      \* the GitHub plugin's world: cache, requests, latest call
          probe        \* a pure function's input and what it computed

lockVars == <<Packages, disk, stdenv, last, prev, calls>>

vars == <<Packages, disk, stdenv, last, prev, calls, plugin, probe>>

----------------------------------------------------------------------------
(* Bounds *)

MaxCalls == 2     \* calls made on one lock.File during a command
MaxPkgs == 2      \* longest argument list given to Add and Remove
MaxNest == 3      \* nesting of Resolve in Stdenv past which a call is
                  \* taken never to return

----------------------------------------------------------------------------
(* Strings *)

EmptyStr == <<>>

HasPrefix(s, p) == Len(s) >= Len(p) /\ SubSeq(s, 1, Len(p)) = p

Contains(s, tok) == \E i \in 1..Len(s) : s[i] = tok

LastIndex(s, tok) ==
    IF Contains(s, tok) THEN CHOOSE i \in 1..Len(s) :
                                /\ s[i] = tok
                                /\ \A j \in (i+1)..Len(s) : s[j] # tok
    ELSE 0

\* The package specs of the model: one that goes to the external resolver,
\* a legacy one, one of no class, and the base reference (a flake).
PkgVersioned == <<"hello", "@", "1">>
PkgLegacy == <<"python3">>
PkgAbsPath == <<"/", "opt", "/", "pkg">>

\* devboxProject.Stdenv().String(): the project's base reference, unlocked.
StdenvRef == <<"github", ":", "nixpkgs">>

Specs == {PkgVersioned, PkgLegacy, PkgAbsPath, StdenvRef}

\* What the external resolver answers for a spec when it answers a package.
LockedOf(pkg) == pkg \o <<"/", "rev1">>

----------------------------------------------------------------------------
(* Package classification *)

RunXPrefix == <<"runx", ":">>

IsRunX(pkg) == HasPrefix(pkg, RunXPrefix)

\* searcher.ParseVersionedPackage: the last "@" splits name and version.
ParseVersionedPackage(pkg) ==
    LET at == LastIndex(pkg, "@")
    IN  IF at = 0 \/ at = Len(pkg)
        THEN [name |-> EmptyStr, version |-> EmptyStr, found |-> FALSE]
        ELSE [name |-> SubSeq(pkg, 1, at - 1),
              version |-> SubSeq(pkg, at + 1, Len(pkg)),
              found |-> TRUE]

FlakeSchemes == {"github", "path", "flake"}

\* flake.ParseRef: a scheme-qualified reference parses to itself (a Ref is
\* held in its string form); anything else is an error.
ParseRef(s) ==
    IF Len(s) >= 3 /\ s[1] \in FlakeSchemes /\ s[2] = ":" /\ ~Contains(s, "#")
    THEN [ok |-> TRUE, ref |-> s]
    ELSE [ok |-> FALSE, ref |-> EmptyStr]

\* pkgtype.IsFlake: the spec parses as a flake installable, ref#attrpath.
IsFlake(pkg) ==
    /\ ~IsRunX(pkg)
    /\ LET hash == LastIndex(pkg, "#")
           ref == IF hash = 0 THEN pkg ELSE SubSeq(pkg, 1, hash - 1)
       IN  ParseRef(ref).ok

IsLegacyIgnoresSchemeMutant(pkg) ==
    /\ ~ParseVersionedPackage(pkg).found
    /\ ~HasPrefix(pkg, <<"/">>)

IsLegacyPackage(pkg) ==
    /\ ~ParseVersionedPackage(pkg).found
    /\ ~Contains(pkg, ":")
    /\ ~HasPrefix(pkg, <<"/">>)

\* flake.Installable{Ref, AttrPath}.String()
InstallableString(ref, attrPath) ==
    IF attrPath = EmptyStr THEN ref ELSE ref \o <<"#">> \o attrPath

----------------------------------------------------------------------------
(* Package, SystemInfo, and the lockfile's form on disk *)

nixpkgSource == "nixpkg"
devboxSearchSource == "devbox-search"

\* nix.System(), and another architecture a lockfile may name.
System == "x86_64-linux"
OtherSystem == "aarch64-darwin"

NoSystems == [sys \in {} |-> 0]

\* &Package{}
EmptyPackage == [Resolved |-> EmptyStr, Source |-> "", Systems |-> NoSystems]

\* &SystemInfo{}
EmptySystemInfo ==
    [Outputs |-> <<>>, StorePath |-> "", outputIsFromStorePath |-> FALSE]

Output(name, path) == [Name |-> name, Path |-> path, Default |-> TRUE]

PathA == "/nix/store/a"
PathB == "/nix/store/b"

NoPackages == [p \in {} |-> 0]

MapSet(m, k, v) == [x \in DOMAIN m \cup {k} |-> IF x = k THEN v ELSE m[x]]

MapDelete(m, k) == [x \in DOMAIN m \ {k} |-> m[x]]

\* ensurePackagesHaveOutputs: a SystemInfo with a StorePath and no Outputs
\* gets the one output of the legacy form, and is flagged.
EnsureSystemHasOutputs(sysInfo) ==
    IF sysInfo.StorePath # "" /\ Len(sysInfo.Outputs) = 0
    THEN [sysInfo EXCEPT !.Outputs = <<Output("out", sysInfo.StorePath)>>,
                         !.outputIsFromStorePath = TRUE]
    ELSE sysInfo

ensurePackagesHaveOutputs(packages) ==
    [p \in DOMAIN packages |->
        [packages[p] EXCEPT !.Systems =
            [sys \in DOMAIN packages[p].Systems |->
                EnsureSystemHasOutputs(packages[p].Systems[sys])]]]

\* encoding/json of the File struct: the exported fields; the flag
\* outputIsFromStorePath is unexported and is not written.
lockFileVersion == "1"

SystemInfoJSON(sysInfo) ==
    [outputs |-> sysInfo.Outputs, store_path |-> sysInfo.StorePath]

PackageJSON(pkg) ==
    [resolved |-> pkg.Resolved,
     source |-> pkg.Source,
     systems |-> [sys \in DOMAIN pkg.Systems |-> SystemInfoJSON(pkg.Systems[sys])]]

FileJSON(packages) ==
    [lockfile_version |-> lockFileVersion,
     packages |-> [p \in DOMAIN packages |-> PackageJSON(packages[p])]]

\* Decoding gives back the exported fields; the flag starts false.
SystemInfoFromJSON(j) ==
    [Outputs |-> j.outputs, StorePath |-> j.store_path,
     outputIsFromStorePath |-> FALSE]

PackageFromJSON(j) ==
    [Resolved |-> j.resolved,
     Source |-> j.source,
     Systems |-> [sys \in DOMAIN j.systems |-> SystemInfoFromJSON(j.systems[sys])]]

\* cachehash.JSON: a hash of the encoding; distinct encodings hash apart.
HashJSON(packages) == <<"sha", FileJSON(packages)>>

\* The file on disk: absent, or holding an encoding.
NoFile == [exists |-> FALSE, json |-> FileJSON(NoPackages)]

FileOf(json) == [exists |-> TRUE, json |-> json]

\* GetFile, when reading succeeds: an absent file gives the empty map.
GetFile(d) ==
    IF ~d.exists THEN NoPackages
    ELSE ensurePackagesHaveOutputs(
            [p \in DOMAIN d.json.packages |-> PackageFromJSON(d.json.packages[p])])

----------------------------------------------------------------------------
(* The running call: the state a handler works on, with what it has done  *)
(* so far and what its collaborators will answer.                          *)

FetchOutcomes == {"err", "nil", "pkg"}

\* "dirtyErr": cachehash.JSON or the reading of the file fails in isDirty;
\* "writeErr": cuecfg.WriteFile fails and leaves the file as it was.
IOOutcomes == {"ok", "dirtyErr", "writeErr"}

\* A call starts from the File and the disk, with an empty log; fetchIn and
\* ioIn are the answers the external resolver and the file system give, in
\* the order they are asked.
\* base is what devboxProject.Stdenv().String() answers; nest counts the
\* calls of Stdenv that have not returned yet.
Begin(pk, d, base, fetchIn, ioIn) ==
    [pk |-> pk, disk |-> d, base |-> base, nest |-> 0,
     log |-> <<>>, saves |-> <<>>, fetchIn |-> fetchIn, ioIn |-> ioIn]

\* A step of the call: its kind, the spec it is about, and for a Fetch what
\* the resolver answered.
Event(kind, arg, out) == <<kind, arg, out>>

Log(m, kind, arg) == [m EXCEPT !.log = Append(@, Event(kind, arg, ""))]

\* f.FetchResolvedPackage(pkg): the external resolver; it fails, or answers
\* nil, or answers a resolved Package.
FetchResolvedPackage(m, pkg) ==
    LET outcome == Head(m.fetchIn)
        m1 == [m EXCEPT !.log = Append(@, Event("Fetch", pkg, outcome)),
                        !.fetchIn = Tail(@)]
    IN  CASE outcome = "err" ->
                [m |-> m1, err |-> TRUE, isNil |-> TRUE, pkg |-> EmptyPackage]
          [] outcome = "nil" ->
                [m |-> m1, err |-> FALSE, isNil |-> TRUE, pkg |-> EmptyPackage]
          [] OTHER ->
                [m |-> m1,
                 err |-> FALSE, isNil |-> FALSE,
                 pkg |-> [Resolved |-> LockedOf(pkg),
                          Source |-> devboxSearchSource,
                          Systems |-> NoSystems]]

RECURSIVE Resolve(_, _)
RECURSIVE Stdenv(_)

NeverCachedMutant(packages, pkg) == FALSE

HasUnresolvedEntryMutant(packages, pkg) ==
    pkg \in DOMAIN packages /\ packages[pkg].Resolved = EmptyStr

\* hasEntry && entry.Resolved != ""
HasResolvedEntry(packages, pkg) ==
    pkg \in DOMAIN packages /\ packages[pkg].Resolved # EmptyStr

StoreNothingMutant(m, pkg, locked) ==
    [m |-> m, err |-> FALSE, isNil |-> FALSE, pkg |-> locked]

\* f.Packages[pkg] = locked; return f.Packages[pkg], nil
StoreLocked(m, pkg, locked) ==
    [m |-> [m EXCEPT !.pk = MapSet(@, pkg, locked)],
     err |-> FALSE, isNil |-> FALSE, pkg |-> locked]

\* File.Resolve
Resolve(m, pkg) ==
    LET m0 == Log(m, "Resolve", pkg)
    IN  IF HasResolvedEntry(m.pk, pkg)
        THEN [m |-> m0, err |-> FALSE, isNil |-> FALSE, pkg |-> m.pk[pkg]]
        ELSE IF IsRunX(pkg) \/ ParseVersionedPackage(pkg).found \/ IsFlake(pkg)
        THEN LET r == FetchResolvedPackage(m0, pkg)
             IN  IF r.err
                 THEN [m |-> r.m, err |-> TRUE, isNil |-> TRUE,
                       pkg |-> EmptyPackage]
                 ELSE StoreLocked(r.m, pkg,
                                  IF r.isNil THEN EmptyPackage ELSE r.pkg)
        ELSE IF IsLegacyPackage(pkg)
        THEN LET s == Stdenv(m0)
             IN  StoreLocked(s.m, pkg,
                             [Resolved |-> InstallableString(s.ref, pkg),
                              Source |-> nixpkgSource,
                              Systems |-> NoSystems])
        ELSE StoreLocked(m0, pkg, EmptyPackage)

StdenvUnlockedMutant(m) == [m |-> m, ref |-> m.base]

StdenvBareNameMutant(m) ==
    LET unlocked == m.base
        r == Resolve([Log(m, "Stdenv", unlocked) EXCEPT !.nest = @ + 1],
                     SubSeq(unlocked, Len(unlocked), Len(unlocked)))
        back == [r.m EXCEPT !.nest = @ - 1]
    IN  IF m.nest >= MaxNest
        THEN [m |-> Log(m, "Overflow", unlocked), ref |-> unlocked]
        ELSE IF r.err THEN [m |-> back, ref |-> unlocked]
        ELSE LET parsed == ParseRef(r.pkg.Resolved)
             IN  IF ~parsed.ok THEN [m |-> back, ref |-> unlocked]
                 ELSE [m |-> back, ref |-> parsed.ref]

\* File.Stdenv: the base reference as locked, or unlocked when it cannot be
\* resolved or its resolved form does not parse.  A call nested MaxNest deep
\* is not followed further: it is logged as "Overflow", a call that does
\* not return.
Stdenv(m) ==
    LET unlocked == m.base
        r == Resolve([Log(m, "Stdenv", unlocked) EXCEPT !.nest = @ + 1],
                     unlocked)
        back == [r.m EXCEPT !.nest = @ - 1]
    IN  IF m.nest >= MaxNest
        THEN [m |-> Log(m, "Overflow", unlocked), ref |-> unlocked]
        ELSE IF r.err THEN [m |-> back, ref |-> unlocked]
        ELSE LET parsed == ParseRef(r.pkg.Resolved)
             IN  IF ~parsed.ok THEN [m |-> back, ref |-> unlocked]
                 ELSE [m |-> back, ref |-> parsed.ref]

ClearAllOutputsMutant(packages) ==
    [p \in DOMAIN packages |->
        [packages[p] EXCEPT !.Systems =
            [sys \in DOMAIN packages[p].Systems |->
                [packages[p].Systems[sys] EXCEPT !.Outputs = <<>>]]]]

isDirtyInvertedMutant(pk, d, io) ==
    IF io = "dirtyErr"
    THEN [dirty |-> FALSE, err |-> TRUE]
    ELSE [dirty |-> HashJSON(pk) = HashJSON(GetFile(d)), err |-> FALSE]

\* File.isDirty: the hash of the File against the hash of the file read anew.
isDirty(pk, d, io) ==
    IF io = "dirtyErr"
    THEN [dirty |-> FALSE, err |-> TRUE]
    ELSE [dirty |-> HashJSON(pk) # HashJSON(GetFile(d)), err |-> FALSE]

\* Save's loop: Outputs = nil where outputIsFromStorePath.
ClearStorePathOutputs(packages) ==
    [p \in DOMAIN packages |->
        [packages[p] EXCEPT !.Systems =
            [sys \in DOMAIN packages[p].Systems |->
                IF packages[p].Systems[sys].outputIsFromStorePath
                THEN [packages[p].Systems[sys] EXCEPT !.Outputs = <<>>]
                ELSE packages[p].Systems[sys]]]]

\* What one run of Save saw and did.
\* dirtyErr: isDirty failed; attempted: WriteFile was called, with content.
SaveRecord(pre, preDisk, dirtyErr, err, attempted, content, post, postDisk) ==
    [pre |-> pre, preDisk |-> preDisk, dirtyErr |-> dirtyErr, err |-> err,
     attempted |-> attempted, content |-> content,
     post |-> post, postDisk |-> postDisk]

SaveNoRehydrateMutant(m) ==
    LET io == Head(m.ioIn)
        m0 == [Log(m, "Save", EmptyStr) EXCEPT !.ioIn = Tail(@)]
        d == isDirty(m.pk, m.disk, io)
        cleared == ClearStorePathOutputs(m.pk)
        content == FileOf(FileJSON(cleared))
        written == IF io = "writeErr" THEN m.disk ELSE content
    IN  IF d.err \/ ~d.dirty
        THEN [m |-> [m0 EXCEPT !.saves = Append(@,
                        SaveRecord(m.pk, m.disk, d.err, d.err, FALSE,
                                   m.disk, m.pk, m.disk))],
              err |-> d.err]
        ELSE [m |-> [Log(m0, "WriteFile", EmptyStr) EXCEPT
                        !.pk = cleared,
                        !.disk = written,
                        !.saves = Append(@,
                            SaveRecord(m.pk, m.disk, FALSE, io = "writeErr",
                                       TRUE, content, cleared, written))],
              err |-> io = "writeErr"]

\* File.Save
Save(m) ==
    LET io == Head(m.ioIn)
        m0 == [Log(m, "Save", EmptyStr) EXCEPT !.ioIn = Tail(@)]
        d == isDirty(m.pk, m.disk, io)
        cleared == ClearStorePathOutputs(m.pk)
        content == FileOf(FileJSON(cleared))
        after == ensurePackagesHaveOutputs(cleared)
        written == IF io = "writeErr" THEN m.disk ELSE content
    IN  IF d.err \/ ~d.dirty
        THEN [m |-> [m0 EXCEPT !.saves = Append(@,
                        SaveRecord(m.pk, m.disk, d.err, d.err, FALSE,
                                   m.disk, m.pk, m.disk))],
              err |-> d.err]
        ELSE [m |-> [Log(m0, "WriteFile", EmptyStr) EXCEPT
                        !.pk = after,
                        !.disk = written,
                        !.saves = Append(@,
                            SaveRecord(m.pk, m.disk, FALSE, io = "writeErr",
                                       TRUE, content, after, written))],
              err |-> io = "writeErr"]

RECURSIVE ResolveAll(_, _)
\* Add's loop: Resolve each, stop at the first error.
ResolveAll(m, pkgs) ==
    IF pkgs = <<>> THEN [m |-> m, err |-> FALSE]
    ELSE LET r == Resolve(m, Head(pkgs))
         IN  IF r.err THEN [m |-> r.m, err |-> TRUE]
             ELSE ResolveAll(r.m, Tail(pkgs))

AddSavesAnywayMutant(m, pkgs) == Save(ResolveAll(m, pkgs).m)

\* File.Add
Add(m, pkgs) ==
    LET r == ResolveAll(m, pkgs)
    IN  IF r.err THEN r ELSE Save(r.m)

RECURSIVE DeleteAll(_, _)
\* Remove's loop: delete(f.Packages, p)
DeleteAll(m, pkgs) ==
    IF pkgs = <<>> THEN m
    ELSE DeleteAll([Log(m, "Delete", Head(pkgs)) EXCEPT
                        !.pk = MapDelete(@, Head(pkgs))],
                   Tail(pkgs))

\* File.Remove
Remove(m, pkgs) == Save(DeleteAll(m, pkgs))

UpdateStdenvKeepsEntryMutant(m, clearErr) ==
    LET m0 == Log(m, "ClearFlakeCache", m.base)
    IN  IF clearErr THEN [m |-> m0, err |-> TRUE]
        ELSE LET r == Save(m0)
             IN  IF r.err THEN r ELSE Add(r.m, <<m.base>>)

\* File.UpdateStdenv; clearErr: nix.ClearFlakeCache fails.
UpdateStdenv(m, clearErr) ==
    LET m0 == Log(m, "ClearFlakeCache", m.base)
    IN  IF clearErr THEN [m |-> m0, err |-> TRUE]
        ELSE LET r == Remove(m0, <<m.base>>)
             IN  IF r.err THEN r ELSE Add(r.m, <<m.base>>)

GetAnyEntryMutant(m, pkg) ==
    IF pkg \notin DOMAIN m.pk
    THEN [m |-> Log(m, "Get", pkg), isNil |-> TRUE, pkg |-> EmptyPackage]
    ELSE [m |-> Log(m, "Get", pkg), isNil |-> FALSE, pkg |-> m.pk[pkg]]

\* File.Get
Get(m, pkg) ==
    IF pkg \notin DOMAIN m.pk \/ m.pk[pkg].Resolved = EmptyStr
    THEN [m |-> Log(m, "Get", pkg), isNil |-> TRUE, pkg |-> EmptyPackage]
    ELSE [m |-> Log(m, "Get", pkg), isNil |-> FALSE, pkg |-> m.pk[pkg]]

TidyDropsStdenvMutant(m, names) ==
    [m EXCEPT !.pk = [p \in DOMAIN m.pk \cap names |-> m.pk[p]]]

\* File.Tidy; names: AllPackageNamesIncludingRemovedTriggerPackages()
Tidy(m, names) ==
    LET keep == names \cup {m.base}
    IN  [m EXCEPT !.pk = [p \in DOMAIN m.pk \cap keep |-> m.pk[p]]]

\* File.SetOutputsForPackage
SetOutputsForPackage(m, pkg, outputs) ==
    LET r == Resolve(m, pkg)
        p == r.pkg
        sysInfo == IF System \in DOMAIN p.Systems THEN p.Systems[System]
                   ELSE EmptySystemInfo
        p1 == [p EXCEPT !.Systems =
                  MapSet(@, System, [sysInfo EXCEPT !.Outputs = outputs])]
    IN  IF r.err THEN [m |-> r.m, err |-> TRUE]
        ELSE Save([r.m EXCEPT !.pk = MapSet(@, pkg, p1)])

----------------------------------------------------------------------------
(* The GitHub plugin: FileContent and getRedactedAuthHeader *)

\* Lengths below which getRedactedAuthHeader masks everything, and the
\* number of characters of a token it shows.
minHeaderLen == 10
minTokenLen == 10
revealLen == 4

FirstIndex(s, tok) ==
    IF Contains(s, tok) THEN CHOOSE i \in 1..Len(s) :
                                /\ s[i] = tok
                                /\ \A j \in 1..(i-1) : s[j] # tok
    ELSE 0

\* strings.SplitN(s, " ", 2)
SplitN2(s) ==
    LET i == FirstIndex(s, " ")
    IN  IF i = 0 THEN <<s>>
        ELSE <<SubSeq(s, 1, i - 1), SubSeq(s, i + 1, Len(s))>>

\* strings.Repeat
Repeat(tok, n) == [i \in 1..n |-> tok]

RedactShowsShortTokenMutant(authHeader) ==
    LET parts == SplitN2(authHeader)
    IN  IF Len(authHeader) < minHeaderLen \/ Len(parts) < 2
        THEN Repeat("*", Len(authHeader))
        ELSE LET authType == parts[1]
                 token == parts[2]
                 shown == IF Len(token) < revealLen THEN Len(token)
                          ELSE revealLen
             IN  authType \o <<" ">> \o SubSeq(token, 1, shown)
                    \o Repeat("*", Len(token) - shown)

\* getRedactedAuthHeader, of the header's value (a sequence of characters)
getRedactedAuthHeader(authHeader) ==
    LET parts == SplitN2(authHeader)
    IN  IF Len(authHeader) < minHeaderLen \/ Len(parts) < 2
        THEN Repeat("*", Len(authHeader))
        ELSE LET authType == parts[1]
                 token == parts[2]
             IN  IF Len(token) < minTokenLen
                 THEN authType \o <<" ">> \o Repeat("*", Len(token))
                 ELSE authType \o <<" ">> \o SubSeq(token, 1, revealLen)
                        \o Repeat("*", Len(token) - revealLen)

\* Durations as token sequences: "1h" is <<"1", "h">>.
DurationNumbers == {"0", "1", "30"}
DurationUnits == {"s", "m", "h"}

\* ttl := 24 * time.Hour
DefaultTTL == <<"24", "h">>

\* time.ParseDuration: "0", or a number with a unit, any number of times.
RECURSIVE IsDuration(_)
IsDuration(s) ==
    \/ s = <<"0">>
    \/ /\ Len(s) >= 2
       /\ s[1] \in DurationNumbers
       /\ s[2] \in DurationUnits
       /\ (Len(s) = 2 \/ IsDuration(SubSeq(s, 3, Len(s))))

ParseDuration(s) ==
    IF IsDuration(s) THEN [err |-> FALSE, ttl |-> s]
    ELSE [err |-> TRUE, ttl |-> <<>>]

\* What the HTTP exchange gives: status 200 with a body, another status,
\* or an error of client.Do.
HTTPOutcomes == {"ok", "status", "doErr"}

\* The plugin's world: the cache (key to value and ttl), the number of HTTP
\* requests sent, and the steps of the running call.
PluginWorld(cache, requests, log) ==
    [cache |-> cache, requests |-> requests, log |-> log]

PluginLog(w, kind, arg) == [w EXCEPT !.log = Append(@, <<kind, arg>>)]

\* githubPlugin.url; urlErr: url.JoinPath fails.
ContentURL(subpath, urlErr) ==
    IF urlErr THEN [err |-> TRUE, url |-> <<>>]
    ELSE [err |-> FALSE,
          url |-> <<"https://raw.githubusercontent.com", "/", "owner", "/",
                    "repo", "/", "master", "/">> \o subpath]

BodyOf(contentURL) == <<"body-of">> \o contentURL

\* The function FileContent gives to GetOrSet, as the values it closes
\* over: the URL, the ttl, and what the HTTP exchange will give.
Closure(contentURL, ttl, http) ==
    [contentURL |-> contentURL, ttl |-> ttl, http |-> http]

\* Running that function: request, client.Do, status check, io.ReadAll.
FetchContent(w, fn) ==
    LET w1 == [PluginLog(w, "http", fn.contentURL) EXCEPT !.requests = @ + 1]
    IN  IF fn.http = "ok"
        THEN [w |-> w1, err |-> FALSE, body |-> BodyOf(fn.contentURL),
              ttl |-> fn.ttl]
        ELSE [w |-> w1, err |-> TRUE, body |-> <<>>, ttl |-> <<>>]

\* githubCache.GetOrSet, one caller at a time: the value held for the key,
\* or else what the function gives, which is stored when it succeeds.
GetOrSet(w, key, fn) ==
    LET w1 == PluginLog(w, "cacheGet", key)
    IN  IF key \in DOMAIN w1.cache
        THEN [w |-> w1, err |-> FALSE, body |-> w1.cache[key].value]
        ELSE LET c == FetchContent(w1, fn)
             IN  IF c.err THEN [w |-> c.w, err |-> TRUE, body |-> <<>>]
                 ELSE [w |-> [PluginLog(c.w, "cacheSet", key) EXCEPT
                                !.cache = MapSet(@, key,
                                    [value |-> c.body, ttl |-> c.ttl])],
                       err |-> FALSE, body |-> c.body]

FileContentDefaultTTLMutant(w, subpath, ttlStr, urlErr, http) ==
    LET u == ContentURL(subpath, urlErr)
        parsed == ParseDuration(ttlStr)
        ttl == IF ttlStr # <<>> /\ ~parsed.err THEN parsed.ttl ELSE DefaultTTL
    IN  IF u.err THEN [w |-> PluginLog(w, "url", subpath),
                       err |-> TRUE, body |-> <<>>]
        ELSE GetOrSet(PluginLog(w, "url", subpath), u.url \o ttlStr,
                      Closure(u.url, ttl, http))

\* githubPlugin.FileContent; ttlStr is the value of
\* DEVBOX_X_GITHUB_PLUGIN_CACHE_TTL.
FileContent(w, subpath, ttlStr, urlErr, http) ==
    LET u == ContentURL(subpath, urlErr)
        w0 == PluginLog(w, "url", subpath)
        parsed == ParseDuration(ttlStr)
        ttl == IF ttlStr # <<>> THEN parsed.ttl ELSE DefaultTTL
    IN  IF u.err THEN [w |-> w0, err |-> TRUE, body |-> <<>>]
        ELSE IF ttlStr # <<>> /\ parsed.err
        THEN [w |-> PluginLog(w0, "ParseDuration", ttlStr),
              err |-> TRUE, body |-> <<>>]
        ELSE GetOrSet(w0, u.url \o ttlStr,
                      Closure(u.url, ttl, http))

\* The record of a finished call of FileContent.
PluginCall(subpath, ttlStr, pre, r) ==
    [subpath |-> subpath, ttlStr |-> ttlStr,
     preCache |-> pre.cache, preRequests |-> pre.requests,
     postCache |-> r.w.cache, postRequests |-> r.w.requests,
     err |-> r.err, body |-> r.body, log |-> r.w.log]

NoCache == [k \in {} |-> 0]

\* Before any call: the cache is empty and no request was sent.
PluginStart ==
    [cache |-> NoCache, requests |-> 0, n |-> 0,
     last |-> [subpath |-> <<>>, ttlStr |-> <<>>,
               preCache |-> NoCache, preRequests |-> 0,
               postCache |-> NoCache, postRequests |-> 0,
               err |-> FALSE, body |-> <<>>, log |-> <<>>]]

----------------------------------------------------------------------------
(* IsUpToDateAndInstalled's collaborators *)

\* What devboxProject.ConfigHash() answers: an error or a hash.
ConfigHashOutcomes == {"err", "cfg1", "cfg2"}

\* What isStateUpToDate answers: an error, or whether the state is current.
TrackerOutcomes == {"err", "false", "true"}

\* UpdateStateHashFileArgs{ProjectDir, ConfigHash, IsFish}
UpdateStateHashFileArgs(configHash, isFish) ==
    <<"projectDir", configHash, IF isFish THEN "fish" ELSE "sh">>

IsUpToDateSkipsDirtyMutant(m, configHash, isFish, tracker) ==
    LET d == isDirty(m.pk, m.disk, Head(m.ioIn))
        m0 == [m EXCEPT !.ioIn = Tail(@),
                        !.log = Append(@, Event("isDirty", EmptyStr,
                                    IF d.err THEN "err"
                                    ELSE IF d.dirty THEN "dirty"
                                    ELSE "clean"))]
        m1 == Log(m0, "ConfigHash", EmptyStr)
        args == UpdateStateHashFileArgs(configHash, isFish)
    IN  IF d.err THEN [m |-> m0, err |-> TRUE, bool |-> FALSE]
        ELSE IF configHash = "err"
        THEN [m |-> m1, err |-> TRUE, bool |-> FALSE]
        ELSE [m |-> [m1 EXCEPT !.log =
                        Append(@, Event("isStateUpToDate", args, tracker))],
              err |-> tracker = "err", bool |-> tracker = "true"]

\* File.IsUpToDateAndInstalled; configHash and tracker are what ConfigHash
\* and isStateUpToDate answer when they are asked.
IsUpToDateAndInstalled(m, configHash, isFish, tracker) ==
    LET d == isDirty(m.pk, m.disk, Head(m.ioIn))
        m0 == [m EXCEPT !.ioIn = Tail(@),
                        !.log = Append(@, Event("isDirty", EmptyStr,
                                    IF d.err THEN "err"
                                    ELSE IF d.dirty THEN "dirty"
                                    ELSE "clean"))]
        m1 == Log(m0, "ConfigHash", EmptyStr)
        args == UpdateStateHashFileArgs(configHash, isFish)
    IN  IF d.err THEN [m |-> m0, err |-> TRUE, bool |-> FALSE]
        ELSE IF d.dirty THEN [m |-> m0, err |-> FALSE, bool |-> FALSE]
        ELSE IF configHash = "err"
        THEN [m |-> m1, err |-> TRUE, bool |-> FALSE]
        ELSE [m |-> [m1 EXCEPT !.log =
                        Append(@, Event("isStateUpToDate", args, tracker))],
              err |-> tracker = "err", bool |-> tracker = "true"]

----------------------------------------------------------------------------
(* The state machine: one action per call on the File *)

\* Lockfiles found on disk when the command starts.
LegacySystemJSON(path) == [outputs |-> <<>>, store_path |-> path]

ModernSystemJSON(path) ==
    [outputs |-> <<Output("out", path)>>, store_path |-> ""]

ResolvedJSON(pkg, source, systems) ==
    [resolved |-> LockedOf(pkg), source |-> source, systems |-> systems]

LegacyLockfile ==
    FileOf([lockfile_version |-> lockFileVersion,
            packages |->
                [p \in {PkgVersioned} |->
                    ResolvedJSON(p, devboxSearchSource,
                        [sys \in {System, OtherSystem} |->
                            LegacySystemJSON(PathA)])]])

ModernLockfile ==
    FileOf([lockfile_version |-> lockFileVersion,
            packages |->
                [p \in {PkgVersioned, StdenvRef} |->
                    IF p = StdenvRef
                    THEN ResolvedJSON(p, "", NoSystems)
                    ELSE ResolvedJSON(p, devboxSearchSource,
                            [sys \in {System} |-> ModernSystemJSON(PathA)])]])

InitialDisks == {NoFile, LegacyLockfile, ModernLockfile}

\* The argument lists of Add and Remove.
PkgLists == UNION {[1..n -> Specs] : n \in 1..MaxPkgs}

\* The outputs given to SetOutputsForPackage.
OutputLists == {<<>>, <<Output("out", PathA)>>, <<Output("out", PathB)>>}

\* What a call returns besides its error: a *Package (Resolve, Get) or a
\* bool (IsUpToDateAndInstalled).
NoReturn == [isNil |-> TRUE, pkg |-> EmptyPackage, bool |-> FALSE]

Returned(r) == [isNil |-> r.isNil, pkg |-> r.pkg, bool |-> FALSE]

ReturnedBool(r) == [isNil |-> TRUE, pkg |-> EmptyPackage, bool |-> r.bool]

Fetches(log) == {i \in 1..Len(log) : log[i][1] = "Fetch"}

\* The record of a finished call.
Call(op, args, outputs, names, pre, preDisk, m, err, ret) ==
    [op |-> op, args |-> args, outputs |-> outputs, names |-> names,
     pre |-> pre, preDisk |-> preDisk,
     err |-> err, ret |-> ret, log |-> m.log, saves |-> m.saves]

\* What is kept of the call before the latest: a Resolve's argument, result
\* and number of resolver invocations; of any other call, that it was made.
NoSummary ==
    [op |-> "other", args |-> <<>>, err |-> FALSE, ret |-> NoReturn,
     fetches |-> 0]

Summary(c) ==
    IF c.op = "Resolve"
    THEN [op |-> c.op, args |-> c.args, err |-> c.err, ret |-> c.ret,
          fetches |-> Cardinality(Fetches(c.log))]
    ELSE NoSummary

\* The call returns: the File and the disk are as it left them.
Finish(op, args, outputs, names, m, err, ret) ==
    /\ calls < MaxCalls
    /\ calls' = calls + 1
    /\ Packages' = m.pk
    /\ disk' = m.disk
    /\ prev' = Summary(last)
    /\ last' = Call(op, args, outputs, names, Packages, disk, m, err, ret)
    /\ UNCHANGED <<stdenv, plugin, probe>>

Start(fetchIn, ioIn) == Begin(Packages, disk, stdenv, fetchIn, ioIn)

\* The probe while no pure function is under study.
NoProbe == [fn |-> "none"]

\* lock.GetFile has loaded the lockfile, and no call was made yet.
Loaded ==
    /\ Packages = GetFile(disk)
    /\ calls = 0
    /\ last = Call("GetFile", <<>>, <<>>, {}, NoPackages, disk,
                   Begin(Packages, disk, stdenv, <<>>, <<>>),
                   FALSE, NoReturn)
    /\ prev = Summary(last)

Init ==
    /\ disk \in InitialDisks
    /\ stdenv = StdenvRef
    /\ Loaded
    /\ plugin = PluginStart
    /\ probe = NoProbe

DoResolve ==
    \E pkg \in Specs, fetch \in FetchOutcomes :
        LET r == Resolve(Start(<<fetch>>, <<>>), pkg)
        IN  Finish("Resolve", <<pkg>>, <<>>, {}, r.m, r.err, Returned(r))

DoAdd ==
    \E pkgs \in PkgLists, io \in IOOutcomes :
        \E fetchIn \in [1..Len(pkgs) -> FetchOutcomes] :
            LET r == Add(Start(fetchIn, <<io>>), pkgs)
            IN  Finish("Add", pkgs, <<>>, {}, r.m, r.err, NoReturn)

DoRemove ==
    \E pkgs \in PkgLists, io \in IOOutcomes :
        LET r == Remove(Start(<<>>, <<io>>), pkgs)
        IN  Finish("Remove", pkgs, <<>>, {}, r.m, r.err, NoReturn)

DoSave ==
    \E io \in IOOutcomes :
        LET r == Save(Start(<<>>, <<io>>))
        IN  Finish("Save", <<>>, <<>>, {}, r.m, r.err, NoReturn)

DoUpdateStdenv ==
    \E clearErr \in BOOLEAN, fetch \in FetchOutcomes,
       io1 \in IOOutcomes, io2 \in IOOutcomes :
        LET r == UpdateStdenv(Start(<<fetch>>, <<io1, io2>>), clearErr)
        IN  Finish("UpdateStdenv", <<>>, <<>>, {}, r.m, r.err, NoReturn)

DoTidy ==
    \E names \in SUBSET Specs :
        LET m == Tidy(Start(<<>>, <<>>), names)
        IN  Finish("Tidy", <<>>, <<>>, names, m, FALSE, NoReturn)

DoSetOutputsForPackage ==
    \E pkg \in Specs, outputs \in OutputLists,
       fetch \in FetchOutcomes, io \in IOOutcomes :
        LET r == SetOutputsForPackage(Start(<<fetch>>, <<io>>), pkg, outputs)
        IN  Finish("SetOutputsForPackage", <<pkg>>, outputs, {},
                   r.m, r.err, NoReturn)

DoGet ==
    \E pkg \in Specs :
        LET r == Get(Start(<<>>, <<>>), pkg)
        IN  Finish("Get", <<pkg>>, <<>>, {}, r.m, FALSE, Returned(r))

DoIsUpToDateAndInstalled ==
    \E io \in {"ok", "dirtyErr"}, configHash \in ConfigHashOutcomes,
       isFish \in BOOLEAN, tracker \in TrackerOutcomes :
        LET r == IsUpToDateAndInstalled(Start(<<>>, <<io>>),
                                        configHash, isFish, tracker)
        IN  Finish("IsUpToDateAndInstalled",
                   <<io, configHash, isFish, tracker>>, <<>>, {},
                   r.m, r.err, ReturnedBool(r))

Next ==
    \/ DoResolve
    \/ DoAdd
    \/ DoRemove
    \/ DoSave
    \/ DoUpdateStdenv
    \/ DoTidy
    \/ DoSetOutputsForPackage
    \/ DoGet
    \/ DoIsUpToDateAndInstalled

Spec == Init /\ [][Next]_vars

----------------------------------------------------------------------------
(* Resolve under every base reference *)

\* The forms devboxProject.Stdenv().String() takes: a flake reference is
\* written with its scheme.
BaseRefs ==
    {<<"github", ":", "nixpkgs">>, <<"path", ":", "nixpkgs">>,
     <<"flake", ":", "nixpkgs">>}

PkgRunX == <<"runx", ":", "tool">>
PkgBareBase == <<"nixpkgs">>

NestSpecs == Specs \cup BaseRefs \cup {PkgRunX, PkgBareBase}

InitNest ==
    /\ disk \in InitialDisks
    /\ stdenv \in BaseRefs
    /\ Loaded
    /\ plugin = PluginStart
    /\ probe = NoProbe

NestResolve ==
    \E pkg \in NestSpecs, fetch \in FetchOutcomes :
        LET r == Resolve(Start(<<fetch>>, <<>>), pkg)
        IN  Finish("Resolve", <<pkg>>, <<>>, {}, r.m, r.err, Returned(r))

NextNest == NestResolve

SpecNest == InitNest /\ [][NextNest]_vars

----------------------------------------------------------------------------
(* Classification of generated specs *)

MaxSpecLen == 5    \* longest generated spec, in tokens

SpecTokens == {"runx", "github", "hello", "@", ":", "/", "#"}

GeneratedSpecs == UNION {[1..n -> SpecTokens] : n \in 0..MaxSpecLen}

\* The branch Resolve takes for a spec that has no entry: "resolver" when
\* it asks the external resolver, "legacy" when it asks Stdenv, "none" when
\* it stores the empty Package.
BranchOf(pkg) ==
    LET r == Resolve(Begin(NoPackages, NoFile, StdenvRef, <<"pkg">>, <<>>),
                     pkg)
    IN  IF Len(r.m.log) = 1 THEN "none"
        ELSE IF r.m.log[2][1] = "Fetch" THEN "resolver"
        ELSE "legacy"

Classification(pkg) ==
    [fn |-> "classify", spec |-> pkg, done |-> TRUE,
     runx |-> IsRunX(pkg),
     versioned |-> ParseVersionedPackage(pkg).found,
     flake |-> IsFlake(pkg),
     legacy |-> IsLegacyPackage(pkg),
     branch |-> BranchOf(pkg)]

\* The lock store at rest while a pure function is under study.
LockAtRest ==
    /\ disk = NoFile
    /\ stdenv = StdenvRef
    /\ Loaded
    /\ plugin = PluginStart

InitClassify ==
    /\ LockAtRest
    /\ \E pkg \in GeneratedSpecs :
          probe = [fn |-> "classify", spec |-> pkg, done |-> FALSE]

Classify ==
    /\ probe.fn = "classify"
    /\ ~probe.done
    /\ probe' = Classification(probe.spec)
    /\ UNCHANGED <<lockVars, plugin>>

NextClassify == Classify

SpecClassify == InitClassify /\ [][NextClassify]_vars

----------------------------------------------------------------------------
(* Redaction of generated Authorization headers *)

MaxHeaderLen == 13    \* longest generated header, in characters

HeaderChars == {"x", " "}

GeneratedHeaders == UNION {[1..n -> HeaderChars] : n \in 0..MaxHeaderLen}

InitRedact ==
    /\ LockAtRest
    /\ \E h \in GeneratedHeaders :
          probe = [fn |-> "redact", header |-> h, done |-> FALSE,
                   out |-> <<>>]

Redact ==
    /\ probe.fn = "redact"
    /\ ~probe.done
    /\ probe' = [probe EXCEPT !.done = TRUE,
                               !.out = getRedactedAuthHeader(probe.header)]
    /\ UNCHANGED <<lockVars, plugin>>

NextRedact == Redact

SpecRedact == InitRedact /\ [][NextRedact]_vars

----------------------------------------------------------------------------
(* The GitHub plugin's calls *)

MaxFetches == 3    \* calls of FileContent during a command

Subpaths == {<<"plugin.json">>, <<"setup.sh">>}

\* Values of DEVBOX_X_GITHUB_PLUGIN_CACHE_TTL: unset, durations, and
\* strings that are no duration.
TTLStrings ==
    {<<>>, <<"1", "h">>, <<"30", "s">>, <<"not-a-duration">>, <<"1">>,
     <<"h">>}

InitPlugin ==
    /\ disk = NoFile
    /\ stdenv = StdenvRef
    /\ Loaded
    /\ plugin = PluginStart
    /\ probe = NoProbe

DoFileContent ==
    \E subpath \in Subpaths, ttlStr \in TTLStrings,
       urlErr \in BOOLEAN, http \in HTTPOutcomes :
        LET pre == PluginWorld(plugin.cache, plugin.requests, <<>>)
            r == FileContent(pre, subpath, ttlStr, urlErr, http)
        IN  /\ plugin.n < MaxFetches
            /\ plugin' = [cache |-> r.w.cache, requests |-> r.w.requests,
                          n |-> plugin.n + 1,
                          last |-> PluginCall(subpath, ttlStr, pre, r)]
            /\ UNCHANGED <<lockVars, probe>>

\* Time passes and an entry of the cache outlives its ttl.
ExpireEntry ==
    \E key \in DOMAIN plugin.cache :
        /\ plugin' = [plugin EXCEPT !.cache = MapDelete(@, key)]
        /\ UNCHANGED <<lockVars, probe>>

NextPlugin ==
    \/ DoFileContent
    \/ ExpireEntry

SpecPlugin == InitPlugin /\ [][NextPlugin]_vars

----------------------------------------------------------------------------
(* Properties *)

ArgSet(c) == {c.args[i] : i \in 1..Len(c.args)}

HasEvent(log, kind) == \E i \in 1..Len(log) : log[i][1] = kind

\* The latest call and the one before it were Resolve of the same spec.
ResolvedTwice ==
    /\ last.op = "Resolve"
    /\ prev.op = "Resolve"
    /\ last.args = prev.args

FetchesOfBoth == prev.fetches + Cardinality(Fetches(last.log))

\* C1, as claimed: two calls Resolve(spec) in a row return an identical
\* Package and invoke the external resolver at most once between them.
C1_ResolveTwiceAsClaimed ==
    ResolvedTwice =>
        /\ last.ret = prev.ret
        /\ FetchesOfBoth <= 1

\* C1, amended: when the first of two calls Resolve(spec) in a row returns
\* a Package whose resolved field is not empty, the second returns an
\* identical Package without an error, and the external resolver is invoked
\* at most once across the two calls.
C1_ResolveTwiceWhenResolved ==
    (ResolvedTwice /\ ~prev.err /\ prev.ret.pkg.Resolved # EmptyStr) =>
        /\ ~last.err
        /\ last.ret = prev.ret
        /\ FetchesOfBoth <= 1

C1_Witness ==
    /\ ResolvedTwice
    /\ ~prev.err
    /\ prev.ret.pkg.Resolved # EmptyStr
    /\ prev.fetches = 1
    /\ last.ret = prev.ret

\* The outputs a map holds for a spec on the current architecture.
HasOutputs(packages, pkg, outputs) ==
    /\ pkg \in DOMAIN packages
    /\ System \in DOMAIN packages[pkg].Systems
    /\ packages[pkg].Systems[System].Outputs = outputs

\* C2: after SetOutputsForPackage(spec, outputs) returns without error, the
\* entry for spec holds outputs for the current architecture, in memory and
\* in the lockfile as loaded again.
C2_SetOutputsHolds ==
    (last.op = "SetOutputsForPackage" /\ ~last.err) =>
        /\ HasOutputs(Packages, last.args[1], last.outputs)
        /\ HasOutputs(GetFile(disk), last.args[1], last.outputs)

\* Every run of Save made by the latest call.
SavesOfLast == {last.saves[i] : i \in 1..Len(last.saves)}

\* C3: Save calls WriteFile exactly when the dirty check completes and the
\* hash of the File differs from the hash of the file read anew; without a
\* write the file stays as it was, a failed dirty check is returned as the
\* error, and a write that succeeds leaves the written content on disk.
C3_SaveWritesIffDirty ==
    \A s \in SavesOfLast :
        /\ s.attempted <=>
              (~s.dirtyErr /\ HashJSON(s.pre) # HashJSON(GetFile(s.preDisk)))
        /\ ~s.attempted => s.postDisk = s.preDisk
        /\ s.dirtyErr => s.err
        /\ (s.attempted /\ ~s.err) => s.postDisk = s.content

C3_Witness ==
    /\ last.op = "Save"
    /\ \E s \in SavesOfLast : s.attempted /\ ~s.err /\ s.postDisk # s.preDisk
    /\ disk # last.preDisk

\* The SystemInfos of a map that are flagged as derived from a StorePath.
StorePathSystems(packages) ==
    {<<p, sys>> \in (DOMAIN packages) \X {System, OtherSystem} :
        /\ sys \in DOMAIN packages[p].Systems
        /\ packages[p].Systems[sys].outputIsFromStorePath}

\* C4: when Save writes, every SystemInfo flagged as derived from a
\* StorePath is written without outputs, and after Save the Packages map is
\* the one before Save.
C4_SaveRestoresPackages ==
    \A s \in SavesOfLast :
        s.attempted =>
            /\ \A x \in StorePathSystems(s.pre) :
                  s.content.json.packages[x[1]].systems[x[2]].outputs = <<>>
            /\ s.post = s.pre

\* C5, as claimed: after every call Resolve(spec), whatever its outcome, the
\* Packages map holds an entry for spec.
C5_ResolveAlwaysStores ==
    last.op = "Resolve" => last.args[1] \in DOMAIN Packages

\* C5, amended: after a call Resolve(spec) that returns without error, the
\* Packages map holds for spec the entry returned (the resolved Package or
\* an empty one); a call that returns an error stores nothing for spec.
C5_ResolveStoresUnlessError ==
    last.op = "Resolve" =>
        IF last.err
        THEN (last.args[1] \in DOMAIN Packages
                 <=> last.args[1] \in DOMAIN last.pre)
        ELSE /\ last.args[1] \in DOMAIN Packages
             /\ Packages[last.args[1]] = last.ret.pkg

C5_Witness ==
    /\ last.op = "Resolve"
    /\ ~last.err
    /\ last.args[1] \notin DOMAIN last.pre
    /\ Packages[last.args[1]] = EmptyPackage

\* The legacy spec the latest call, a Resolve, resolved anew: no resolved
\* entry was there for it before the call.
LegacyResolved ==
    {s \in Specs :
        /\ last.op = "Resolve"
        /\ last.args = <<s>>
        /\ IsLegacyPackage(s)
        /\ ~HasResolvedEntry(last.pre, s)}

\* The base reference as the lockfile's entry for it locks it.
BaseEntryLocked(packages) ==
    /\ StdenvRef \in DOMAIN packages
    /\ ParseRef(packages[StdenvRef].Resolved).ok

\* C6, as claimed: the entry Resolve stores for a legacy spec s has source
\* nixpkgs-pin and the installable of the locked base reference (the
\* resolved value of the base reference's entry) with attribute path s,
\* never that of the unpinned base reference.
C6_LegacyAlwaysLocked ==
    \A s \in LegacyResolved :
        /\ s \in DOMAIN Packages
        /\ Packages[s].Source = nixpkgSource
        /\ BaseEntryLocked(Packages)
        /\ Packages[s].Resolved =
              InstallableString(Packages[StdenvRef].Resolved, s)
        /\ Packages[s].Resolved # InstallableString(StdenvRef, s)

\* C6, amended: the entry Resolve stores for a legacy spec s has source
\* nixpkgs-pin and attribute path s; its reference is the resolved value of
\* the base reference's entry when the base reference resolves to an entry
\* whose resolved value parses as a flake reference, and the unpinned base
\* reference otherwise (the resolver fails, or answers nothing).
C6_LegacyLockedWhenBaseResolves ==
    \A s \in LegacyResolved :
        /\ s \in DOMAIN Packages
        /\ Packages[s].Source = nixpkgSource
        /\ Packages[s].Resolved =
              InstallableString(
                  IF BaseEntryLocked(Packages)
                  THEN Packages[StdenvRef].Resolved ELSE StdenvRef,
                  s)

C6_Witness ==
    /\ last.op = "Resolve"
    /\ last.args[1] \in LegacyResolved
    /\ HasEvent(last.log, "Fetch")
    /\ BaseEntryLocked(Packages)
    /\ Packages[last.args[1]].Resolved =
          InstallableString(LockedOf(StdenvRef), last.args[1])

\* The steps of the latest call at which a Resolve made by the call itself
\* (not by Stdenv, which takes the error and goes on) got an error from the
\* external resolver.
FailedFetches ==
    {i \in 2..Len(last.log) :
        /\ last.log[i][1] = "Fetch"
        /\ last.log[i][3] = "err"
        /\ last.log[i-1] = Event("Resolve", last.log[i][2], "")
        /\ (i = 2 \/ last.log[i-2][1] # "Stdenv")}

ResolveFailed == FailedFetches # {}

\* The specs Add itself passed to Resolve, in order (not the base reference
\* that Stdenv resolves on the way).
RECURSIVE DirectResolves(_)
DirectResolves(log) ==
    IF log = <<>> THEN <<>>
    ELSE LET n == Len(log)
             rest == DirectResolves(SubSeq(log, 1, n - 1))
         IN  IF log[n][1] = "Resolve" /\ (n = 1 \/ log[n-1][1] # "Stdenv")
             THEN Append(rest, log[n][2])
             ELSE rest

\* C7: when Resolve fails for a spec during Add, Add returns the error
\* without resolving the later specs and without calling Save, the file on
\* disk is unchanged, and the entries of the earlier specs are in Packages.
C7_AddAbortsOnFailure ==
    (last.op = "Add" /\ ResolveFailed) =>
        LET done == DirectResolves(last.log)
            k == Len(done)
        IN  /\ last.err
            /\ FailedFetches = {Len(last.log)}
            /\ k >= 1 /\ k <= Len(last.args)
            /\ done = SubSeq(last.args, 1, k)
            /\ last.log[Len(last.log)][2] = last.args[k]
            /\ ~HasEvent(last.log, "Save")
            /\ last.saves = <<>>
            /\ disk = last.preDisk
            /\ \A i \in 1..(k-1) : last.args[i] \in DOMAIN Packages

C7_Witness ==
    /\ last.op = "Add"
    /\ ResolveFailed
    /\ Len(last.args) = 2
    /\ DirectResolves(last.log) = last.args
    /\ last.args[1] \notin DOMAIN last.pre
    /\ last.args[1] \in DOMAIN Packages
    /\ last.args[1] # last.args[2]

\* A log without its WriteFile steps.
RECURSIVE Steps(_)
Steps(log) ==
    IF log = <<>> THEN <<>>
    ELSE IF Head(log)[1] = "WriteFile" THEN Steps(Tail(log))
    ELSE <<<<Head(log)[1], Head(log)[2]>>>> \o Steps(Tail(log))

UpdateStdenvSteps ==
    << <<"ClearFlakeCache", StdenvRef>>, <<"Delete", StdenvRef>>,
       <<"Save", EmptyStr>>, <<"Resolve", StdenvRef>>,
       <<"Fetch", StdenvRef>>, <<"Save", EmptyStr>> >>

\* What Resolve stores for an answer of the external resolver.
StoredFor(pkg, out) ==
    IF out = "nil" THEN EmptyPackage
    ELSE [Resolved |-> LockedOf(pkg), Source |-> devboxSearchSource,
          Systems |-> NoSystems]

\* C8: UpdateStdenv clears the resolver's cache for the base reference, then
\* removes the base reference's entry (with a Save), then adds it again; when
\* it returns without error the entry is what the external resolver answered
\* during this call.
C8_UpdateStdenvResolvesAnew ==
    last.op = "UpdateStdenv" =>
        LET steps == Steps(last.log)
        IN  /\ Len(steps) <= Len(UpdateStdenvSteps)
            /\ steps = SubSeq(UpdateStdenvSteps, 1, Len(steps))
            /\ ~last.err =>
                  /\ steps = UpdateStdenvSteps
                  /\ \E i \in 1..Len(last.log) :
                        /\ last.log[i][1] = "Fetch"
                        /\ last.log[i][2] = StdenvRef
                        /\ last.log[i][3] # "err"
                        /\ StdenvRef \in DOMAIN Packages
                        /\ Packages[StdenvRef] =
                              StoredFor(StdenvRef, last.log[i][3])

C8_Witness ==
    /\ last.op = "UpdateStdenv"
    /\ ~last.err
    /\ HasResolvedEntry(last.pre, StdenvRef)
    /\ HasResolvedEntry(Packages, StdenvRef)
    /\ Len(last.saves) = 2

\* C9: Tidy deletes exactly the entries whose key is not among the declared
\* specs, the removed trigger packages and the base reference; the entries
\* kept are unchanged, none is added, and the file on disk is not touched.
C9_TidyKeepsExactlyKeepSet ==
    last.op = "Tidy" =>
        /\ DOMAIN Packages = DOMAIN last.pre \cap (last.names \cup {StdenvRef})
        /\ \A p \in DOMAIN Packages : Packages[p] = last.pre[p]
        /\ disk = last.preDisk
        /\ last.saves = <<>>

C9_Witness ==
    /\ last.op = "Tidy"
    /\ StdenvRef \notin last.names
    /\ StdenvRef \in DOMAIN Packages
    /\ DOMAIN last.pre \ DOMAIN Packages # {}
    /\ Cardinality(DOMAIN Packages) >= 2

\* C10: Remove(specs...) deletes exactly the listed keys that are present,
\* leaves every other entry unchanged, takes an absent spec as no error,
\* and calls Save, so that after a return without error the lockfile on
\* disk holds none of the removed keys.
C10_RemoveDeletesExactly ==
    last.op = "Remove" =>
        /\ DOMAIN Packages = DOMAIN last.pre \ ArgSet(last)
        /\ \A p \in DOMAIN Packages : Packages[p] = last.pre[p]
        /\ Len(last.saves) = 1
        /\ ~last.err => DOMAIN GetFile(disk) = DOMAIN Packages

\* The latest call was IsUpToDateAndInstalled; its inputs are in last.args.
UpToDateAsked == last.op = "IsUpToDateAndInstalled"

DirtyCheckFailed == last.args[1] = "dirtyErr"

WasDirty == HashJSON(last.pre) # HashJSON(GetFile(last.preDisk))

TrackerEvents ==
    {i \in 1..Len(last.log) : last.log[i][1] = "isStateUpToDate"}

\* C11: IsUpToDateAndInstalled returns true only if the dirty check
\* succeeded and found the lockfile not dirty and the staleness tracker
\* answered that (project directory, config hash, flavor flag) is up to
\* date; when the lockfile is dirty it returns false without asking the
\* tracker; when the dirty check or the config hash fails it returns the
\* error with false.
C11_UpToDateOnlyWhenCleanAndTracked ==
    UpToDateAsked =>
        /\ last.ret.bool =>
                /\ ~last.err
                /\ ~DirtyCheckFailed
                /\ ~WasDirty
                /\ \E i \in TrackerEvents :
                        /\ last.log[i][2] = UpdateStateHashFileArgs(
                                                last.args[2], last.args[3])
                        /\ last.log[i][3] = "true"
        /\ (~DirtyCheckFailed /\ WasDirty) =>
                /\ ~last.ret.bool
                /\ ~last.err
                /\ TrackerEvents = {}
        /\ (DirtyCheckFailed \/ (~WasDirty /\ last.args[2] = "err")) =>
                /\ last.err
                /\ ~last.ret.bool
                /\ TrackerEvents = {}

C11_Witness ==
    /\ UpToDateAsked
    /\ last.ret.bool
    /\ ~WasDirty
    /\ Packages # NoPackages

\* No SystemInfo of the map has outputs derived from a legacy store path.
NoLegacyOutputs(packages) ==
    \A p \in DOMAIN packages : \A sys \in DOMAIN packages[p].Systems :
        ~packages[p].Systems[sys].outputIsFromStorePath

ResolvedFromMap ==
    /\ last.op = "Resolve"
    /\ last.args[1] \in DOMAIN last.pre
    /\ last.pre[last.args[1]].Resolved # EmptyStr

\* C15: when Packages holds an entry for spec with a non-empty resolved
\* field, Resolve(spec) returns that entry, invokes neither the external
\* resolver nor Stdenv(), and leaves Packages and the lockfile on disk as
\* they were.
C15_ResolveFromMapIsFrame ==
    ResolvedFromMap =>
        /\ ~last.err
        /\ ~last.ret.isNil
        /\ last.ret.pkg = last.pre[last.args[1]]
        /\ last.log = <<Event("Resolve", last.args[1], "")>>
        /\ Packages = last.pre
        /\ disk = last.preDisk

C15_Witness ==
    /\ ResolvedFromMap
    /\ last.ret.pkg = last.pre[last.args[1]]
    /\ last.ret.pkg.Systems # NoSystems

\* C16: Get(spec) returns the entry exactly when Packages holds an entry for
\* spec with a non-empty resolved field, and nil otherwise; it resolves
\* nothing and changes neither Packages nor the lockfile on disk.
C16_GetReadsOnly ==
    (last.op = "Get") =>
        LET pkg == last.args[1]
            held == pkg \in DOMAIN last.pre /\ last.pre[pkg].Resolved # EmptyStr
        IN  /\ last.ret.isNil <=> ~held
            /\ held => last.ret.pkg = last.pre[pkg]
            /\ ~last.err
            /\ ~HasEvent(last.log, "Resolve")
            /\ ~HasEvent(last.log, "Fetch")
            /\ ~HasEvent(last.log, "Stdenv")
            /\ Packages = last.pre
            /\ disk = last.preDisk

C16_Witness ==
    /\ last.op = "Get"
    /\ last.args[1] \in DOMAIN last.pre
    /\ last.pre[last.args[1]].Resolved = EmptyStr
    /\ last.ret.isNil

\* The latest call was one of those that end in Save, and gave no error.
SavedWithoutError ==
    /\ last.op \in {"Save", "Add", "Remove", "SetOutputsForPackage"}
    /\ ~last.err

\* C20: after Save, Add, Remove or SetOutputsForPackage returns without
\* error the lockfile is not dirty: the hash of the map in memory equals the
\* hash of the lockfile read anew, and a Save made next writes nothing; also
\* where the map holds legacy-derived outputs or unresolved entries.
C20_NotDirtyAfterSave ==
    SavedWithoutError =>
        /\ HashJSON(Packages) = HashJSON(GetFile(disk))
        /\ LET again == Save(Start(<<>>, <<"ok">>))
           IN  /\ ~again.err
               /\ ~again.m.saves[1].attempted
               /\ again.m.disk = disk

C20_Witness ==
    /\ SavedWithoutError
    /\ \E s \in SavesOfLast : s.attempted
    /\ ~NoLegacyOutputs(Packages)
    /\ \E p \in DOMAIN Packages : Packages[p].Resolved = EmptyStr

StdenvEvents == {i \in 1..Len(last.log) : last.log[i][1] = "Stdenv"}

Classified == probe.fn = "classify" /\ probe.done

ClassesOf(p) ==
    {c \in {"runx", "versioned", "flake", "legacy"} : p[c]}

\* C14, as claimed: for every spec string exactly one of the four classes
\* RunX, versioned, flake, legacy matches.
C14_ExactlyOneClass ==
    Classified => Cardinality(ClassesOf(probe)) = 1

\* C14, amended: for every spec string Resolve takes exactly one of three
\* dispatch branches: the external resolver when the spec is RunX, versioned
\* or flake (classes that may overlap), the legacy branch exactly when the
\* spec is legacy, and neither when no class matches; legacy excludes the
\* three other classes.
C14_OneBranchPerSpec ==
    Classified =>
        /\ probe.branch = "resolver" <=>
                (probe.runx \/ probe.versioned \/ probe.flake)
        /\ probe.branch = "legacy" <=> probe.legacy
        /\ probe.branch = "none" <=> ClassesOf(probe) = {}
        /\ probe.legacy => ClassesOf(probe) = {"legacy"}

C14_Witness ==
    /\ Classified
    /\ probe.runx
    /\ probe.versioned
    /\ probe.branch = "resolver"

\* The latest call of FileContent had an override that is no duration.
BadTTLGiven ==
    /\ plugin.n > 0
    /\ plugin.last.ttlStr # <<>>
    /\ ~IsDuration(plugin.last.ttlStr)

PluginEvents(kind) ==
    {i \in 1..Len(plugin.last.log) : plugin.last.log[i][1] = kind}

\* C18: when DEVBOX_X_GITHUB_PLUGIN_CACHE_TTL is not empty and is no valid
\* duration, FileContent returns an error before it reads or writes the
\* cache and before any HTTP request; the 24 hour default is not used
\* instead.
C18_BadTTLFailsFirst ==
    BadTTLGiven =>
        /\ plugin.last.err
        /\ PluginEvents("cacheGet") = {}
        /\ PluginEvents("cacheSet") = {}
        /\ PluginEvents("http") = {}
        /\ plugin.last.postCache = plugin.last.preCache
        /\ plugin.last.postRequests = plugin.last.preRequests

C18_Witness ==
    /\ BadTTLGiven
    /\ plugin.last.err
    /\ PluginEvents("ParseDuration") # {}
    /\ plugin.last.preCache # NoCache
    /\ plugin.last.preRequests > 0

Redacted == probe.fn = "redact" /\ probe.done

\* C19: for every Authorization header value the redacted rendering is as
\* long as the input; it shows at most the first 4 characters of the token
\* (the part after the first space) and a '*' in place of every other
\* character of the token; the whole value is masked when it is shorter
\* than 10 characters or has no space, and the whole token when the token
\* is shorter than 10 characters.
C19_RedactionMasksToken ==
    Redacted =>
        LET h == probe.header
            out == probe.out
            sp == FirstIndex(h, " ")
        IN  /\ Len(out) = Len(h)
            /\ (Len(h) < 10 \/ sp = 0) =>
                    \A i \in 1..Len(h) : out[i] = "*"
            /\ (Len(h) >= 10 /\ sp > 0) =>
                    \A i \in (sp + 1)..Len(h) :
                        /\ out[i] \in {"*", h[i]}
                        /\ (i - sp > 4 \/ Len(h) - sp < 10) => out[i] = "*"

C19_Witness ==
    /\ Redacted
    /\ Len(probe.header) = 13
    /\ FirstIndex(probe.header, " ") = 2
    /\ probe.out = <<"x", " ", "x", "x", "x", "x">> \o Repeat("*", 7)

====
